---- MODULE Spec2Model ----
(***************************************************************************)
(* Model of the replication-state engine of rusty_replicon (src/main.rs).  *)
(* The track replication_state is a fixed array of 2k+3 lengths, indexed  *)
(* from 0 as in the source: even indices are replicated runs, odd indices  *)
(* are unreplicated gaps.                                                  *)
(*                                                                         *)
(* Spec     : Cell::full_replication, the driver of main.rs.               *)
(* SpecApi  : the methods of Cell called in any order on a fresh cell.     *)
(* FairSpec : Spec with the fairness the claims about termination assume.  *)
(* SpecArchive : the Chromosome of src/main_archive.rs, a deque of ranges, *)
(*            with replicate and is_replicated called in any order.        *)
(* SpecPair : run_replication of src/main_basic.rs beside the driver of   *)
(*            main.rs, both fed the same accepted origin positions.        *)
(* SpecForks : the main loop of src/main_forkstruct.rs on a vector of      *)
(*            forks; its local iteration is only printed and left out.     *)
(***************************************************************************)
EXTENDS Integers, FiniteSets, Sequences, TLC

\* ---------------------------------------------------------------- bounds
MaxLen == 6
MaxK == 3
MaxRate == 2
MaxWarmup == 2
MaxIterations == 9
MaxForks == 5

VARIABLES
    genome_length,          \* Cell.genome_length
    num_replicators,        \* Cell.num_replicators
    replication_rate,       \* Cell.replication_rate
    unassigned_replicators, \* Cell.unassigned_replicators (the fork quota)
    cell_state,             \* Cell.cell_state
    replication_state,      \* Cell.replication_state, a function on 0..2k+2
    pc,                     \* position of the running code
    index,                  \* loop variable of replicate_and_merge
    sample_pos,             \* last candidate drawn in the accept/reject loop
    new_initiation_pos,     \* accepted candidate, -1 while none
    num_warmup_iters,       \* local of full_replication
    num_iterations,         \* local of full_replication
    query,                  \* last is_replicated call: position and outcome
    chromosome,             \* Chromosome.replication_state (main_archive.rs)
    replicate_args,         \* the positions passed to Chromosome::replicate
    chromosome_call,        \* last call on the chromosome and its outcome
    genome,                 \* Genome.replication_state (main_basic.rs)
    basic_unassigned,       \* local unassigned_replicators of run_replication
    basic_rep,              \* iterations left of `for _rep in 0..n`
    basic_iterations,       \* local num_iterations of run_replication
    exited,                 \* which of the two drivers has left its loop
    fork_state,             \* Cell.fork_state (main_forkstruct.rs)
    step_size               \* Cell.step_size (main_forkstruct.rs)

vars == <<genome_length, num_replicators, replication_rate,
          unassigned_replicators, cell_state, replication_state, pc, index,
          sample_pos, new_initiation_pos, num_warmup_iters, num_iterations,
          query, chromosome, replicate_args, chromosome_call,
          genome, basic_unassigned, basic_rep, basic_iterations, exited,
          fork_state, step_size>>

config == <<genome_length, num_replicators, replication_rate>>

\* the state of main_archive.rs, which the Cell of main.rs never touches
archive == <<chromosome, replicate_args, chromosome_call>>

\* the state of main_basic.rs's driver, run beside the driver of main.rs
basic == <<genome, basic_unassigned, basic_rep, basic_iterations, exited>>

\* the state of main_forkstruct.rs
forks == <<fork_state, step_size>>

\* ------------------------------------------------------- pure functions

\* a track sized for the gaps only, without the two spare slots
NumEntries_short(k) == (k * 2) + 1

NumEntries(k) == (k * 2) + 3

\* Cell::new: vec![0; 2k+3] with start_vec[1] = genome_length
start_vec(L, k) == [i \in 0..(NumEntries(k) - 1) |-> IF i = 1 THEN L ELSE 0]

num_entries(rs) == Cardinality(DOMAIN rs)

RECURSIVE SumUpTo(_, _)
\* sum of rs[0] .. rs[n-1]
SumUpTo(rs, n) == IF n = 0 THEN 0 ELSE SumUpTo(rs, n - 1) + rs[n - 1]

RECURSIVE WalkFrom_inclusive(_, _, _, _)
\* the walk with the break test position <= cumsum
WalkFrom_inclusive(rs, position, ind, cumsum) ==
    LET c == cumsum + rs[ind] IN
    IF (position <= c) \/ (ind = num_entries(rs) - 1)
    THEN [ind |-> ind, cumsum |-> c]
    ELSE WalkFrom_inclusive(rs, position, ind + 1, c)

RECURSIVE WalkFrom(_, _, _, _)
\* The cumulative walk shared by is_replicated and assign_replicators:
\* the index and running sum are updated, then the loop breaks when
\* position < cumsum; after the last entry they keep their last values.
WalkFrom(rs, position, ind, cumsum) ==
    LET c == cumsum + rs[ind] IN
    IF (position < c) \/ (ind = num_entries(rs) - 1)
    THEN [ind |-> ind, cumsum |-> c]
    ELSE WalkFrom(rs, position, ind + 1, c)

Walk(rs, position) == WalkFrom(rs, position, 0, 0)

\* is_replicated with the break test position <= cumsum
is_replicated_inclusive(rs, position) ==
    WalkFrom_inclusive(rs, position, 0, 0).ind % 2 = 0

\* is_replicated, past the bounds check
is_replicated(rs, position) == Walk(rs, position).ind % 2 = 0

\* the bounds check written with > instead of >=
is_replicated_panics_strict(L, position) == position > L

\* the bounds check of is_replicated
is_replicated_panics(L, position) == position >= L

is_replicated_outcome(rs, L, position) ==
    IF is_replicated_panics(L, position) THEN "panic"
    ELSE IF is_replicated(rs, position) THEN "true" ELSE "false"

is_fully_replicated(rs) ==
    \A ind \in DOMAIN rs : ~((ind % 2 # 0) /\ (rs[ind] # 0))

\* random_ranges built with an inclusive upper end
random_ranges_inclusive(rs) ==
    {[ind |-> ind, lo |-> SumUpTo(rs, ind), hi |-> SumUpTo(rs, ind) + rs[ind] + 1] :
        ind \in {i \in DOMAIN rs : (i % 2 # 0) /\ (rs[i] # 0)}}

\* random_ranges: one half-open range [lo, hi) per non-empty odd entry
random_ranges(rs) ==
    {[ind |-> ind, lo |-> SumUpTo(rs, ind), hi |-> SumUpTo(rs, ind) + rs[ind]] :
        ind \in {i \in DOMAIN rs : (i % 2 # 0) /\ (rs[i] # 0)}}

\* the values samp_range.sample can return over all weighted choices
sample_positions(rs) == UNION {r.lo..(r.hi - 1) : r \in random_ranges(rs)}

\* the three writes of an insertion stay inside the array
insert_in_bounds(rs, position) == Walk(rs, position).ind + 2 < num_entries(rs)

\* insert_origin with right_count computed as cumsum - position
insert_origin_off_by_one(rs, position) ==
    LET w == Walk(rs, position)
        insert_index == w.ind
        cumsum == w.cumsum
        current_length == rs[insert_index]
        left_count == position + current_length - cumsum
        right_count == cumsum - position
    IN [i \in DOMAIN rs |->
            IF i = insert_index THEN left_count
            ELSE IF i = insert_index + 1 THEN 1
            ELSE IF i = insert_index + 2 THEN right_count
            ELSE IF i > insert_index + 2 THEN rs[i - 2]
            ELSE rs[i]]

\* insert_origin with the two remainders written the wrong way round
insert_origin_swapped(rs, position) ==
    LET w == Walk(rs, position)
        insert_index == w.ind
        cumsum == w.cumsum
        current_length == rs[insert_index]
        left_count == position + current_length - cumsum
        right_count == (cumsum - 1) - position
    IN [i \in DOMAIN rs |->
            IF i = insert_index THEN right_count
            ELSE IF i = insert_index + 1 THEN 1
            ELSE IF i = insert_index + 2 THEN left_count
            ELSE IF i > insert_index + 2 THEN rs[i - 2]
            ELSE rs[i]]

\* assign_replicators, lines 100-121: locate, shift right by two, write
insert_origin(rs, position) ==
    LET w == Walk(rs, position)
        insert_index == w.ind
        cumsum == w.cumsum
        current_length == rs[insert_index]
        left_count == position + current_length - cumsum
        right_count == (cumsum - 1) - position
    IN [i \in DOMAIN rs |->
            IF i = insert_index THEN left_count
            ELSE IF i = insert_index + 1 THEN 1
            ELSE IF i = insert_index + 2 THEN right_count
            ELSE IF i > insert_index + 2 THEN rs[i - 2]
            ELSE rs[i]]

Min(a, b) == IF a < b THEN a ELSE b

\* shift_left that always starts at the front, as the edge case does
shift_left_from_start(rs, from) ==
    [i \in DOMAIN rs |-> IF i < num_entries(rs) - 2 THEN rs[i + 2] ELSE 0]

\* shift_left that moves the entries one slot instead of two
shift_left_one_slot(rs, from) ==
    [i \in DOMAIN rs |->
        IF i < from THEN rs[i]
        ELSE IF i < num_entries(rs) - 1 THEN rs[i + 1]
        ELSE 0]

\* shift every entry from index `from` two slots left, zero the last two
shift_left(rs, from) ==
    [i \in DOMAIN rs |->
        IF i < from THEN rs[i]
        ELSE IF i < num_entries(rs) - 2 THEN rs[i + 2]
        ELSE 0]

\* transfer that moves only whole steps of length rate
transfer_whole_steps(rs, ind, rate) ==
    LET left_occupied == rs[ind - 1] > 0
        right_occupied == rs[ind + 1] > 0
        to_left == IF (rs[ind] >= rate) /\ left_occupied THEN rate ELSE 0
        rest == rs[ind] - to_left
        to_right == IF (rest >= rate) /\ right_occupied THEN rate ELSE 0
    IN [rs EXCEPT ![ind - 1] = @ + to_left,
                  ![ind] = rest - to_right,
                  ![ind + 1] = @ + to_right]

\* the transfers of one loop iteration of replicate_and_merge
transfer(rs, ind, rate) ==
    LET left_occupied == rs[ind - 1] > 0
        right_occupied == rs[ind + 1] > 0
        to_left == IF (rs[ind] > 0) /\ left_occupied THEN Min(rs[ind], rate) ELSE 0
        rest == rs[ind] - to_left
        to_right == IF (rs[ind] > 0) /\ right_occupied /\ (rest > 0)
                    THEN Min(rest, rate) ELSE 0
    IN [rs EXCEPT ![ind - 1] = @ + to_left,
                  ![ind] = rest - to_right,
                  ![ind + 1] = @ + to_right]

\* merge test made only for a gap that was non-empty before the transfers
merges_non_empty_only(rs, ind, rate) ==
    (rs[ind] > 0) /\ (transfer(rs, ind, rate)[ind] = 0)
        /\ (rs[ind - 1] > 0) /\ (rs[ind + 1] > 0)

\* the merge test of one loop iteration, on the entries after the transfers
merges(rs, ind, rate) ==
    (transfer(rs, ind, rate)[ind] = 0) /\ (rs[ind - 1] > 0) /\ (rs[ind + 1] > 0)

\* the loop iteration whose merge forgets to add the right neighbour
process_gap_no_absorb(rs, ind, rate) ==
    LET t == transfer(rs, ind, rate) IN
    IF merges(rs, ind, rate)
    THEN shift_left(t, ind)
    ELSE t

\* one loop iteration of replicate_and_merge at odd index ind
process_gap(rs, ind, rate) ==
    LET t == transfer(rs, ind, rate) IN
    IF merges(rs, ind, rate)
    THEN shift_left([t EXCEPT ![ind - 1] = @ + t[ind + 1]], ind)
    ELSE t

\* edge_collapse that shifts the track by one slot instead of two
edge_collapse_one_slot(rs) ==
    IF (rs[0] = 0) /\ (rs[1] = 0)
    THEN [i \in DOMAIN rs |-> IF i < num_entries(rs) - 1 THEN rs[i + 1] ELSE 0]
    ELSE rs

\* replicate_and_merge without the edge case for the genome start
edge_collapse_none(rs) == rs

\* edge case for merging genome start
edge_collapse(rs) ==
    IF (rs[0] = 0) /\ (rs[1] = 0) THEN shift_left(rs, 0) ELSE rs

RECURSIVE pass_from(_, _, _)
\* the descending loop of replicate_and_merge from odd index ind down to 1
pass_from(rs, ind, rate) ==
    IF ind < 1 THEN rs ELSE pass_from(process_gap(rs, ind, rate), ind - 2, rate)

RECURSIVE merged_from(_, _, _)
\* the merges counted by that loop (num_merged of main_basic.rs)
merged_from(rs, ind, rate) ==
    IF ind < 1 THEN 0
    ELSE (IF merges(rs, ind, rate) THEN 1 ELSE 0)
         + merged_from(process_gap(rs, ind, rate), ind - 2, rate)

\* one whole call of replicate_and_merge: the track it leaves
replicate_and_merge(rs, rate) ==
    edge_collapse(pass_from(rs, num_entries(rs) - 2, rate))

\* one whole call of replicate_and_merge: the merges it counts
num_merged(rs, rate) == merged_from(rs, num_entries(rs) - 2, rate)

NoQuery == [position |-> -1, outcome |-> "none"]

\* ------------------------------------------- main_archive.rs: Chromosome

\* Range { replicated, length }
Range(replicated, length) == [replicated |-> replicated, length |-> length]

\* Chromosome::new: one unreplicated range of the whole length
Chromosome_new(L) == <<Range(FALSE, L)>>

\* VecDeque indexing, remove and insert with the source's 0-based indices
At(dq, i) == dq[i + 1]
Remove(dq, i) == SubSeq(dq, 1, i) \o SubSeq(dq, i + 2, Len(dq))
AddLength(dq, i, n) == [dq EXCEPT ![i + 1].length = @ + n]
Insert(dq, i, x) == SubSeq(dq, 1, i) \o <<x>> \o SubSeq(dq, i + 1, Len(dq))

\* the bounds checks without the test for negative positions
Chromosome_panics_high_only(L, position) == position >= L

\* the bounds checks shared by replicate and is_replicated
Chromosome_panics(L, position) == (position < 0) \/ (position >= L)

RECURSIVE Chromosome_walk_from(_, _, _, _)
\* the cumulative walk over the ranges, breaking when position < cumsum
Chromosome_walk_from(dq, position, ind, cumsum) ==
    LET c == cumsum + At(dq, ind).length IN
    IF (position < c) \/ (ind = Len(dq) - 1)
    THEN [ind |-> ind, cumsum |-> c]
    ELSE Chromosome_walk_from(dq, position, ind + 1, c)

Chromosome_walk(dq, position) == Chromosome_walk_from(dq, position, 0, 0)

\* Chromosome::is_replicated, past the bounds checks
Chromosome_is_replicated(dq, position) ==
    At(dq, Chromosome_walk(dq, position).ind).replicated

\* Chromosome::replicate, past the bounds checks
Chromosome_replicate(dq, position) ==
    LET w == Chromosome_walk(dq, position)
        insert_index == w.ind
        cumsum == w.cumsum
        current_length == At(dq, insert_index).length
        left_count == position - ((cumsum - 1) - current_length) - 1
        right_count == (cumsum - 1) - position
        d1 == Insert(Remove(dq, insert_index), insert_index, Range(TRUE, 1))
        d2 == IF right_count > 0
              THEN Insert(d1, Min(insert_index + 1, Len(d1)), Range(FALSE, right_count))
              ELSE d1
        d3 == IF left_count > 0
              THEN Insert(d2, insert_index, Range(FALSE, left_count))
              ELSE d2
        new_data_loc == insert_index + (IF left_count > 0 THEN 1 ELSE 0)
        d4 == IF /\ new_data_loc < Len(d3) - 1
                 /\ At(d3, new_data_loc).replicated = At(d3, new_data_loc + 1).replicated
              THEN Remove(AddLength(d3, new_data_loc, At(d3, new_data_loc).length),
                          new_data_loc + 1)
              ELSE d3
        d5 == IF /\ new_data_loc > 0
                 /\ At(d4, new_data_loc).replicated = At(d4, new_data_loc - 1).replicated
              THEN Remove(AddLength(d4, new_data_loc, 1), new_data_loc - 1)
              ELSE d4
    IN IF At(dq, insert_index).replicated THEN dq ELSE d5

NoCall == [op |-> "none", position |-> -1, outcome |-> "none"]

\* ---------------------------------------------------------------- Init

\* both drivers are still in their loops
NoneExited == [main |-> FALSE, basic |-> FALSE]

InitCell ==
    /\ genome_length \in 1..MaxLen
    /\ num_replicators \in 1..MaxK
    /\ replication_rate \in 1..MaxRate
    /\ unassigned_replicators = num_replicators
    /\ cell_state = "GPhase"
    /\ replication_state = start_vec(genome_length, num_replicators)
    /\ index = 0
    /\ sample_pos = -1
    /\ new_initiation_pos = -1
    /\ num_warmup_iters = 0
    /\ num_iterations = 0
    /\ query = NoQuery
    /\ chromosome = <<>>
    /\ replicate_args = {}
    /\ chromosome_call = NoCall
    /\ genome = <<>>
    /\ basic_unassigned = 0
    /\ basic_rep = 0
    /\ basic_iterations = 0
    /\ exited = NoneExited
    /\ fork_state = <<>>
    /\ step_size = 0

Init == InitCell /\ pc = "gate"

InitApi == InitCell /\ pc = "idle"

\* ------------------------------------------- assign_replicators, stepwise

\* assign_replicators without the Err arm of WeightedIndex::new
assign_loop_no_err(ret) ==
    /\ pc = "assign"
    /\ IF unassigned_replicators > 0
       THEN /\ pc' = "sample"
            /\ UNCHANGED index
       ELSE /\ pc' = ret
            /\ index' = IF ret = "ram" THEN num_entries(replication_state) - 2 ELSE 0
    /\ new_initiation_pos' = -1
    /\ sample_pos' = -1
    /\ UNCHANGED <<config, archive, basic, forks, unassigned_replicators, cell_state, replication_state,
                   num_warmup_iters, num_iterations, query>>

\* head of the while loop, the region scan and WeightedIndex::new
assign_loop(ret) ==
    /\ pc = "assign"
    /\ IF (unassigned_replicators > 0) /\ (random_ranges(replication_state) # {})
       THEN /\ pc' = "sample"
            /\ UNCHANGED index
       ELSE /\ pc' = ret
            /\ index' = IF ret = "ram" THEN num_entries(replication_state) - 2 ELSE 0
    /\ new_initiation_pos' = -1
    /\ sample_pos' = -1
    /\ UNCHANGED <<config, archive, basic, forks, unassigned_replicators, cell_state, replication_state,
                   num_warmup_iters, num_iterations, query>>

\* one draw that is rejected (gen::<f64>() <= 0.9)
sample_reject ==
    /\ pc = "sample"
    /\ \E p \in sample_positions(replication_state) : sample_pos' = p
    /\ UNCHANGED <<config, archive, basic, forks, unassigned_replicators, cell_state, replication_state,
                   pc, index, new_initiation_pos, num_warmup_iters,
                   num_iterations, query>>

\* one draw that is accepted (gen::<f64>() > 0.9)
sample_accept ==
    /\ pc = "sample"
    /\ \E p \in sample_positions(replication_state) :
          /\ sample_pos' = p
          /\ new_initiation_pos' = p
    /\ pc' = "insert"
    /\ UNCHANGED <<config, archive, basic, forks, unassigned_replicators, cell_state, replication_state,
                   index, num_warmup_iters, num_iterations, query>>

\* the insertion and the quota update
insert_step ==
    /\ pc = "insert"
    /\ IF insert_in_bounds(replication_state, new_initiation_pos)
       THEN /\ replication_state' = insert_origin(replication_state, new_initiation_pos)
            /\ unassigned_replicators' = unassigned_replicators - 1
            /\ pc' = "assign"
       ELSE /\ pc' = "panic"
            /\ UNCHANGED <<replication_state, unassigned_replicators>>
    /\ UNCHANGED <<config, archive, basic, forks, cell_state, index, sample_pos, new_initiation_pos,
                   num_warmup_iters, num_iterations, query>>

\* ------------------------------------------ replicate_and_merge, stepwise

\* the loop iteration without the count of the merge
ram_step_uncounted ==
    /\ pc = "ram"
    /\ replication_state' = process_gap(replication_state, index, replication_rate)
    /\ IF index > 1
       THEN /\ index' = index - 2
            /\ UNCHANGED pc
       ELSE /\ index' = 0
            /\ pc' = "edge"
    /\ UNCHANGED <<config, archive, basic, forks, unassigned_replicators, cell_state, sample_pos,
                   new_initiation_pos, num_warmup_iters, num_iterations, query>>

\* one iteration of the descending loop over the odd indices
ram_step ==
    /\ pc = "ram"
    /\ replication_state' = process_gap(replication_state, index, replication_rate)
    /\ unassigned_replicators' =
          IF merges(replication_state, index, replication_rate)
          THEN unassigned_replicators + 1
          ELSE unassigned_replicators
    /\ IF index > 1
       THEN /\ index' = index - 2
            /\ UNCHANGED pc
       ELSE /\ index' = 0
            /\ pc' = "edge"
    /\ UNCHANGED <<config, archive, basic, forks, cell_state, sample_pos, new_initiation_pos,
                   num_warmup_iters, num_iterations, query>>

\* the leading-pair collapse, then return
edge_step(ret) ==
    /\ pc = "edge"
    /\ replication_state' = edge_collapse(replication_state)
    /\ pc' = ret
    /\ UNCHANGED <<config, archive, basic, forks, unassigned_replicators, cell_state, index, sample_pos,
                   new_initiation_pos, num_warmup_iters, query>>

\* --------------------------------------------------- full_replication

\* the gate written with `if` for `while`: a failed draw leaves the gate
gate_stay_falls_through ==
    /\ pc = "gate"
    /\ cell_state = "GPhase"
    /\ num_warmup_iters < MaxWarmup
    /\ num_warmup_iters' = num_warmup_iters + 1
    /\ pc' = "loop"
    /\ UNCHANGED <<config, archive, basic, forks, unassigned_replicators, cell_state, replication_state,
                   index, sample_pos, new_initiation_pos, num_iterations, query>>

\* a draw that leaves the cell in G phase (counter capped by MaxWarmup)
gate_stay ==
    /\ pc = "gate"
    /\ cell_state = "GPhase"
    /\ num_warmup_iters < MaxWarmup
    /\ num_warmup_iters' = num_warmup_iters + 1
    /\ UNCHANGED <<config, archive, basic, forks, unassigned_replicators, cell_state, replication_state,
                   pc, index, sample_pos, new_initiation_pos, num_iterations, query>>

\* the switching draw without the increment of the counter
gate_enter_uncounted ==
    /\ pc = "gate"
    /\ cell_state = "GPhase"
    /\ cell_state' = "SPhase"
    /\ pc' = "loop"
    /\ UNCHANGED <<config, archive, basic, forks, unassigned_replicators, replication_state, index,
                   sample_pos, new_initiation_pos, num_iterations, query,
                   num_warmup_iters>>

\* the draw that enters S phase; the loop test then fails
gate_enter ==
    /\ pc = "gate"
    /\ cell_state = "GPhase"
    /\ cell_state' = "SPhase"
    /\ num_warmup_iters' = num_warmup_iters + 1
    /\ pc' = "loop"
    /\ UNCHANGED <<config, archive, basic, forks, unassigned_replicators, replication_state, index,
                   sample_pos, new_initiation_pos, num_iterations, query>>

\* while !self.is_fully_replicated()
loop_test ==
    /\ pc = "loop"
    /\ pc' = IF is_fully_replicated(replication_state) THEN "done" ELSE "assign"
    /\ UNCHANGED <<config, archive, basic, forks, unassigned_replicators, cell_state, replication_state,
                   index, sample_pos, new_initiation_pos, num_warmup_iters,
                   num_iterations, query>>

driver_assign_loop == assign_loop("ram")

\* (counter capped by MaxIterations, which no run of the loop reaches)
driver_edge_step ==
    /\ num_iterations < MaxIterations
    /\ edge_step("loop")
    /\ num_iterations' = num_iterations + 1

Next ==
    \/ gate_stay
    \/ gate_enter
    \/ loop_test
    \/ driver_assign_loop
    \/ sample_reject
    \/ sample_accept
    \/ insert_step
    \/ ram_step
    \/ driver_edge_step

Spec == Init /\ [][Next]_vars

\* the program keeps running; of the random draws only acceptance is fair
FairSpec ==
    /\ Spec
    /\ WF_vars(loop_test)
    /\ WF_vars(driver_assign_loop)
    /\ WF_vars(sample_accept)
    /\ WF_vars(insert_step)
    /\ WF_vars(ram_step)
    /\ WF_vars(driver_edge_step)

\* ------------------------------------------------ methods in any order

call_assign_replicators ==
    /\ pc = "idle"
    /\ pc' = "assign"
    /\ query' = NoQuery
    /\ UNCHANGED <<config, archive, basic, forks, unassigned_replicators, cell_state, replication_state,
                   index, sample_pos, new_initiation_pos, num_warmup_iters,
                   num_iterations>>

call_replicate_and_merge ==
    /\ pc = "idle"
    /\ pc' = "ram"
    /\ index' = num_entries(replication_state) - 2
    /\ query' = NoQuery
    /\ UNCHANGED <<config, archive, basic, forks, unassigned_replicators, cell_state, replication_state,
                   sample_pos, new_initiation_pos, num_warmup_iters, num_iterations>>

call_is_replicated ==
    /\ pc = "idle"
    /\ \E position \in 0..(genome_length + 1) :
          query' = [position |-> position,
                    outcome |-> is_replicated_outcome(replication_state,
                                                      genome_length, position)]
    /\ UNCHANGED <<config, archive, basic, forks, unassigned_replicators, cell_state, replication_state,
                   pc, index, sample_pos, new_initiation_pos, num_warmup_iters,
                   num_iterations>>

api_assign_loop == assign_loop("idle")

api_edge_step ==
    /\ edge_step("idle")
    /\ UNCHANGED num_iterations

NextApi ==
    \/ call_assign_replicators
    \/ call_replicate_and_merge
    \/ call_is_replicated
    \/ api_assign_loop
    \/ sample_reject
    \/ sample_accept
    \/ insert_step
    \/ ram_step
    \/ api_edge_step

SpecApi == InitApi /\ [][NextApi]_vars

\* ------------------------------------- main_archive.rs: calls in any order

InitArchive ==
    /\ genome_length \in 1..MaxLen
    /\ num_replicators = 1
    /\ replication_rate = 1
    /\ unassigned_replicators = num_replicators
    /\ cell_state = "GPhase"
    /\ replication_state = start_vec(genome_length, num_replicators)
    /\ index = 0
    /\ sample_pos = -1
    /\ new_initiation_pos = -1
    /\ num_warmup_iters = 0
    /\ num_iterations = 0
    /\ query = NoQuery
    /\ chromosome = Chromosome_new(genome_length)
    /\ replicate_args = {}
    /\ chromosome_call = NoCall
    /\ genome = <<>>
    /\ basic_unassigned = 0
    /\ basic_rep = 0
    /\ basic_iterations = 0
    /\ exited = NoneExited
    /\ fork_state = <<>>
    /\ step_size = 0
    /\ pc = "archive"

cell == <<num_replicators, replication_rate, unassigned_replicators, cell_state,
          replication_state, index, sample_pos, new_initiation_pos,
          num_warmup_iters, num_iterations, query>>

\* chromosome = chromosome.replicate(position); a panic ends the run
call_Chromosome_replicate ==
    /\ pc = "archive"
    /\ \E position \in (-1)..(genome_length + 1) :
          IF Chromosome_panics(genome_length, position)
          THEN /\ chromosome_call' = [op |-> "replicate", position |-> position,
                                      outcome |-> "panic"]
               /\ pc' = "panicked"
               /\ UNCHANGED <<chromosome, replicate_args>>
          ELSE /\ chromosome' = Chromosome_replicate(chromosome, position)
               /\ replicate_args' = replicate_args \cup {position}
               /\ chromosome_call' = [op |-> "replicate", position |-> position,
                                      outcome |-> "ok"]
               /\ UNCHANGED pc
    /\ UNCHANGED <<genome_length, cell, basic, forks>>

\* chromosome.is_replicated(position); a panic ends the run
call_Chromosome_is_replicated ==
    /\ pc = "archive"
    /\ \E position \in (-1)..(genome_length + 1) :
          IF Chromosome_panics(genome_length, position)
          THEN /\ chromosome_call' = [op |-> "is_replicated", position |-> position,
                                      outcome |-> "panic"]
               /\ pc' = "panicked"
          ELSE /\ chromosome_call' =
                     [op |-> "is_replicated", position |-> position,
                      outcome |-> IF Chromosome_is_replicated(chromosome, position)
                                  THEN "true" ELSE "false"]
               /\ UNCHANGED pc
    /\ UNCHANGED <<genome_length, cell, basic, forks, chromosome, replicate_args>>

NextArchive ==
    \/ call_Chromosome_replicate
    \/ call_Chromosome_is_replicated

SpecArchive == InitArchive /\ [][NextArchive]_vars

\* --------------------- main_basic.rs: run_replication beside full_replication

\* Genome::new: vec![0; (num_origins * 2) + 3] with start_vec[1] = genome_length
Genome_new(L, num_origins) ==
    [i \in 0..((num_origins * 2) + 2) |-> IF i = 1 THEN L ELSE 0]

\* the values Genome::random_unreplicated_point can return; Err when empty
random_unreplicated_point(rs) ==
    UNION {SumUpTo(rs, ind)..(SumUpTo(rs, ind) + rs[ind] - 1) :
              ind \in {i \in DOMAIN rs : (i % 2 # 0) /\ (rs[i] # 0)}}

\* the quota of run_replication that is never reset before the merge count
\* is added
quota_after_pass_no_reset(unassigned, merged) == unassigned + merged

\* unassigned_replicators = 0; ...; unassigned_replicators += num_merged
quota_after_pass(unassigned, merged) == 0 + merged

\* both drivers have passed the phase gate and stand at their loop tests
InitPair ==
    /\ genome_length \in 1..MaxLen
    /\ num_replicators \in 1..MaxK
    /\ replication_rate \in 1..MaxRate
    /\ unassigned_replicators = num_replicators
    /\ cell_state = "SPhase"
    /\ replication_state = start_vec(genome_length, num_replicators)
    /\ index = 0
    /\ sample_pos = -1
    /\ new_initiation_pos = -1
    /\ num_warmup_iters = 0
    /\ num_iterations = 0
    /\ query = NoQuery
    /\ chromosome = <<>>
    /\ replicate_args = {}
    /\ chromosome_call = NoCall
    /\ genome = Genome_new(genome_length, num_replicators)
    /\ basic_unassigned = num_replicators
    /\ basic_rep = 0
    /\ basic_iterations = 0
    /\ exited = NoneExited
    /\ fork_state = <<>>
    /\ step_size = 0
    /\ pc = "pair_loop"

\* what neither driver touches
pair_frame == <<config, archive, forks, cell_state, index, sample_pos,
                new_initiation_pos, num_warmup_iters, query>>

\* while self.unassigned_replicators > 0, with a gap left to sample
main_places ==
    /\ ~exited.main
    /\ unassigned_replicators > 0
    /\ sample_positions(replication_state) # {}

\* for _rep in 0..*num_replicators, with a gap left to sample
basic_places ==
    /\ ~exited.basic
    /\ basic_rep > 0
    /\ random_unreplicated_point(genome) # {}

\* the two loop tests; the for loop of assign_replicators reads its bound
pair_loop_test ==
    /\ pc = "pair_loop"
    /\ exited' = [main |-> is_fully_replicated(replication_state),
                  basic |-> is_fully_replicated(genome)]
    /\ basic_rep' = IF is_fully_replicated(genome) THEN 0 ELSE basic_unassigned
    /\ pc' = IF is_fully_replicated(replication_state) /\ is_fully_replicated(genome)
             THEN "pair_done" ELSE "pair_assign"
    /\ UNCHANGED <<pair_frame, unassigned_replicators, replication_state,
                   num_iterations, genome, basic_unassigned, basic_iterations>>

\* the next accepted origin position, placed by each driver that is placing
pair_place ==
    /\ pc = "pair_assign"
    /\ main_places \/ basic_places
    /\ \E position \in 0..(genome_length - 1) :
          /\ main_places => position \in sample_positions(replication_state)
          /\ basic_places => position \in random_unreplicated_point(genome)
          /\ IF main_places
             THEN /\ replication_state' = insert_origin(replication_state, position)
                  /\ unassigned_replicators' = unassigned_replicators - 1
             ELSE UNCHANGED <<replication_state, unassigned_replicators>>
          /\ IF basic_places
             THEN /\ genome' = insert_origin(genome, position)
                  /\ basic_rep' = basic_rep - 1
             ELSE UNCHANGED <<genome, basic_rep>>
    /\ UNCHANGED <<pair_frame, pc, num_iterations, basic_unassigned,
                   basic_iterations, exited>>

\* both assign_replicators calls have returned: one replicate_and_merge call
\* in each driver still in its loop, then the quota and the iteration count
pair_replicate_and_merge ==
    /\ pc = "pair_assign"
    /\ ~main_places
    /\ ~basic_places
    /\ IF exited.main
       THEN UNCHANGED <<replication_state, unassigned_replicators, num_iterations>>
       ELSE /\ replication_state' =
                   replicate_and_merge(replication_state, replication_rate)
            /\ unassigned_replicators' = unassigned_replicators
                   + num_merged(replication_state, replication_rate)
            /\ num_iterations' = num_iterations + 1
    /\ IF exited.basic
       THEN UNCHANGED <<genome, basic_unassigned, basic_iterations>>
       ELSE /\ genome' = replicate_and_merge(genome, replication_rate)
            /\ basic_unassigned' = quota_after_pass(basic_unassigned,
                                       num_merged(genome, replication_rate))
            /\ basic_iterations' = basic_iterations + 1
    /\ basic_rep' = 0
    /\ pc' = "pair_loop"
    /\ UNCHANGED <<pair_frame, exited>>

NextPair ==
    \/ pair_loop_test
    \/ pair_place
    \/ pair_replicate_and_merge

SpecPair == InitPair /\ [][NextPair]_vars

\* ------------------------------------- main_forkstruct.rs: a Cell of forks

\* Fork { origin, position, step, to_delete }
Fork(origin, position, step) ==
    [origin |-> origin, position |-> position, step |-> step, to_delete |-> FALSE]

Max(a, b) == IF a > b THEN a ELSE b

\* x.max(0).min(self.genome_length as isize)
Clamp(x, L) == Min(Max(x, 0), L)

\* (fork.origin - fork.position).unsigned_abs()
unsigned_abs(x) == IF x < 0 THEN -x ELSE x

RECURSIVE fork_spans(_, _)
\* the sum of the spans of the first n forks
fork_spans(fs, n) ==
    IF n = 0 THEN 0
    ELSE fork_spans(fs, n - 1) + unsigned_abs(fs[n].origin - fs[n].position)

\* Cell::fully_replicated
fully_replicated(fs, L) ==
    IF fs = <<>> THEN FALSE ELSE L = fork_spans(fs, Len(fs))

\* the index insert_fork_pair inserts at: the first fork whose position is
\* at or right of insertion_position, the end if there is none
insertion_index(fs, insertion_position) ==
    LET hits == {ind \in 0..(Len(fs) - 1) : insertion_position <= At(fs, ind).position}
    IN IF hits = {} THEN Len(fs)
       ELSE CHOOSE ind \in hits : \A other \in hits : ind <= other

\* Cell::insert_fork_pair: the right-moving fork is inserted first, then the
\* left-moving fork at the same index
insert_fork_pair(fs, insertion_position, step, L) ==
    LET ind == insertion_index(fs, insertion_position)
        right == Fork(insertion_position, Clamp(insertion_position + step, L), step)
        left == Fork(insertion_position, Clamp(insertion_position - step, L), -step)
    IN Insert(Insert(fs, ind, right), ind, left)

\* Cell::step_forks
step_forks(fs, L) ==
    [i \in DOMAIN fs |-> [fs[i] EXCEPT !.position = Clamp(@ + fs[i].step, L)]]

\* fork_state.len() - 3 underflows for fewer than 3 forks: a panic in a
\* debug build; in a release build the bound wraps and fork_state[ind + 2]
\* at ind = 0 is out of range, a panic as well
merge_forks_panics(fs) == Len(fs) < 3

\* the indices ind of (0..len - 3).step_by(2) whose pair has met the next
overlaps(fs) ==
    {ind \in 0..(Len(fs) - 4) :
        /\ ind % 2 = 0
        /\ At(fs, ind + 1).position >= At(fs, ind + 2).position}

\* the first of them, where the loop breaks
first_overlap(fs) == CHOOSE ind \in overlaps(fs) : \A other \in overlaps(fs) : ind <= other

\* the four writes, then remove(ind + 1) and remove(ind + 2) on the vector
\* that the first removal has already shifted
merge_at(fs, ind) ==
    LET meet == At(fs, ind + 1).position
        written ==
            [fs EXCEPT
                ![ind + 1] = [@ EXCEPT !.origin = meet,
                                       !.position = Min(@, At(fs, ind + 2).position)],
                ![ind + 4] = [@ EXCEPT !.origin = meet,
                                       !.position = Max(meet, @)]]
    IN Remove(Remove(written, ind + 1), ind + 2)

\* Cell::merge_forks on a vector of at least 3 forks: one pass, one merge
merge_forks(fs) ==
    IF overlaps(fs) = {} THEN fs ELSE merge_at(fs, first_overlap(fs))

RECURSIVE scan_forks(_, _)
\* the loop over the forks in replenish_forks after n forks: the ranges
\* pushed so far and cumsum
scan_forks(fs, n) ==
    IF n = 0 THEN [ranges |-> {}, cumsum |-> 0]
    ELSE LET prev == scan_forks(fs, n - 1)
             fork == fs[n]
             left_val == IF fork.step < 0 THEN fork.position ELSE fork.origin
             right_val == IF fork.step < 0 THEN fork.origin ELSE fork.position
         IN [ranges |-> IF (left_val > prev.cumsum) /\ (left_val - prev.cumsum > 1)
                        THEN prev.ranges \cup {[lo |-> prev.cumsum, hi |-> left_val]}
                        ELSE prev.ranges,
             cumsum |-> right_val]

\* Uniform::new(cumsum, genome_length) panics unless cumsum < genome_length
replenish_panics(fs, L) ==
    (fs # <<>>) /\ (scan_forks(fs, Len(fs)).cumsum > L)

\* unreplicated_ranges, as half-open ranges [lo, hi)
unreplicated_ranges(fs, L) ==
    IF fs = <<>> THEN {[lo |-> 0, hi |-> L]}
    ELSE LET s == scan_forks(fs, Len(fs))
         IN IF s.cumsum # L THEN s.ranges \cup {[lo |-> s.cumsum, hi |-> L]}
            ELSE s.ranges

\* the positions the accept/reject loop can accept; WeightedIndex::new is
\* Err exactly when there is no range
new_positions(fs, L) == UNION {r.lo..(r.hi - 1) : r \in unreplicated_ranges(fs, L)}

\* Cell::new(genome_length, num_replicators, step_size) at the loop test
InitForks ==
    /\ genome_length \in 1..MaxLen
    /\ num_replicators \in 4..MaxForks
    /\ replication_rate = 1
    /\ unassigned_replicators = num_replicators
    /\ cell_state = "GPhase"
    /\ replication_state = start_vec(genome_length, num_replicators)
    /\ index = 0
    /\ sample_pos = -1
    /\ new_initiation_pos = -1
    /\ num_warmup_iters = 0
    /\ num_iterations = 0
    /\ query = NoQuery
    /\ chromosome = <<>>
    /\ replicate_args = {}
    /\ chromosome_call = NoCall
    /\ genome = <<>>
    /\ basic_unassigned = 0
    /\ basic_rep = 0
    /\ basic_iterations = 0
    /\ exited = NoneExited
    /\ fork_state = <<>>
    /\ step_size \in 1..MaxRate
    /\ pc = "fork_loop"

\* while !cell.fully_replicated()
fork_loop_test ==
    /\ pc = "fork_loop"
    /\ pc' = IF fully_replicated(fork_state, genome_length)
             THEN "fork_done" ELSE "fork_replenish"
    /\ UNCHANGED <<genome_length, cell, archive, basic, forks>>

\* one iteration of the while loop of replenish_forks that accepts a position
fork_replenish_insert ==
    /\ pc = "fork_replenish"
    /\ Len(fork_state) < num_replicators
    /\ ~replenish_panics(fork_state, genome_length)
    /\ \E new_position \in new_positions(fork_state, genome_length) :
          fork_state' = insert_fork_pair(fork_state, new_position, step_size,
                                         genome_length)
    /\ UNCHANGED <<genome_length, cell, archive, basic, step_size, pc>>

\* replenish_forks is over: enough forks, or no range left to sample (Err),
\* or the construction of the last range panics
fork_replenish_return ==
    /\ pc = "fork_replenish"
    /\ \/ Len(fork_state) >= num_replicators
       \/ replenish_panics(fork_state, genome_length)
       \/ new_positions(fork_state, genome_length) = {}
    /\ pc' = IF /\ Len(fork_state) < num_replicators
                /\ replenish_panics(fork_state, genome_length)
             THEN "fork_panic" ELSE "fork_step"
    /\ UNCHANGED <<genome_length, cell, archive, basic, forks>>

\* cell.step_forks()
fork_step_forks ==
    /\ pc = "fork_step"
    /\ fork_state' = step_forks(fork_state, genome_length)
    /\ pc' = "fork_merge"
    /\ UNCHANGED <<genome_length, cell, archive, basic, step_size>>

\* cell.merge_forks(); a panic ends the run
fork_merge_forks ==
    /\ pc = "fork_merge"
    /\ IF merge_forks_panics(fork_state)
       THEN /\ pc' = "fork_panic"
            /\ UNCHANGED fork_state
       ELSE /\ fork_state' = merge_forks(fork_state)
            /\ pc' = "fork_loop"
    /\ UNCHANGED <<genome_length, cell, archive, basic, step_size>>

NextForks ==
    \/ fork_loop_test
    \/ fork_replenish_insert
    \/ fork_replenish_return
    \/ fork_step_forks
    \/ fork_merge_forks

SpecForks == InitForks /\ [][NextForks]_vars

\* ------------------------------------------------------------- helpers

Total(rs) == SumUpTo(rs, num_entries(rs))

RECURSIVE SumParity(_, _, _)
\* sum of the entries of rs[0] .. rs[n-1] whose index has parity par
SumParity(rs, n, par) ==
    IF n = 0 THEN 0
    ELSE SumParity(rs, n - 1, par) + (IF (n - 1) % 2 = par THEN rs[n - 1] ELSE 0)

ReplicatedTotal(rs) == SumParity(rs, num_entries(rs), 0)
UnreplicatedTotal(rs) == SumParity(rs, num_entries(rs), 1)

OddIndices(rs) == {i \in DOMAIN rs : i % 2 = 1}
EvenIndices(rs) == {i \in DOMAIN rs : i % 2 = 0}
LastIndex(rs) == num_entries(rs) - 1

\* number of non-empty replicated segments
NonEmptyReplicated(rs) == Cardinality({i \in EvenIndices(rs) : rs[i] > 0})

\* the state is the entry of a replicate_and_merge call
AtCallEntry == pc = "ram" /\ index = LastIndex(replication_state) - 1

\* this step is an origin insertion
IsInsertion == pc = "insert" /\ pc' = "assign"

\* ------------------------------------------------------------- claims

\* C1 (SpecApi): the entries of replication_state sum to genome_length in
\* every state reached by origin insertions and replicate_and_merge steps.
C1_Conservation == Total(replication_state) = genome_length

\* origins were placed and replicated runs have grown, a gap still open
C1_Witness ==
    /\ pc = "idle"
    /\ unassigned_replicators < num_replicators
    /\ ReplicatedTotal(replication_state) >= 2
    /\ UnreplicatedTotal(replication_state) >= 1

\* C2 (SpecApi): whenever an insertion happens the last two slots of the
\* track are zero, so the two-slot right shift drops nothing, and the three
\* writes of the insertion stay inside the array; no run ends in a panic.
C2_Capacity ==
    /\ pc # "panic"
    /\ pc = "insert" =>
          /\ replication_state[LastIndex(replication_state)] = 0
          /\ replication_state[LastIndex(replication_state) - 1] = 0
          /\ insert_in_bounds(replication_state, new_initiation_pos)

\* the last origin of the quota goes into the last gap the array can hold
C2_Witness ==
    /\ pc = "insert"
    /\ num_replicators >= 2
    /\ unassigned_replicators = 1
    /\ NonEmptyReplicated(replication_state) = num_replicators - 1
    /\ Walk(replication_state, new_initiation_pos).ind + 2
          = LastIndex(replication_state) - 1

\* C3 (FairSpec): once the cell is in S phase the replication loop reaches
\* its exit with is_fully_replicated true.
C3_Termination ==
    (cell_state = "SPhase")
        ~> (pc = "done" /\ is_fully_replicated(replication_state))

\* the loop has exited after several iterations
C3_Witness ==
    /\ pc = "done"
    /\ num_iterations >= 2
    /\ is_fully_replicated(replication_state)

\* C4 (SpecApi): no step increases the sum of the odd-indexed entries, and
\* a fully replicated track stays fully replicated.
C4_Monotonic ==
    [][/\ UnreplicatedTotal(replication_state')
             <= UnreplicatedTotal(replication_state)
       /\ is_fully_replicated(replication_state)
             => is_fully_replicated(replication_state')]_vars

\* replicate_and_merge runs again on a track completed by an earlier call
C4_Witness ==
    /\ pc = "edge"
    /\ is_fully_replicated(replication_state)
    /\ replication_state[0] = genome_length

\* the first index whose cumulative length exceeds position p, if any
FirstExceeding(rs, p) ==
    {i \in DOMAIN rs :
        /\ SumUpTo(rs, i + 1) > p
        /\ \A j \in DOMAIN rs : j < i => SumUpTo(rs, j + 1) <= p}

\* C5 (SpecApi): for every position p in [0, genome_length), is_replicated(p)
\* holds exactly when the first segment whose cumulative length exceeds p
\* has an even index, and the number of such positions is the sum of the
\* even-indexed entries.
C5_Partition ==
    /\ \A p \in 0..(genome_length - 1) :
          /\ FirstExceeding(replication_state, p) # {}
          /\ is_replicated(replication_state, p)
                <=> (\E i \in FirstExceeding(replication_state, p) : i % 2 = 0)
    /\ Cardinality({p \in 0..(genome_length - 1) :
                        is_replicated(replication_state, p)})
          = ReplicatedTotal(replication_state)

\* a zero-length gap lies between two replicated runs, another gap is open
C5_Witness ==
    /\ UnreplicatedTotal(replication_state) >= 1
    /\ \E i \in OddIndices(replication_state) :
          /\ replication_state[i] = 0
          /\ replication_state[i - 1] > 0
          /\ replication_state[i + 1] > 0

\* the split that the insertion of p into the gap at odd index i must give
SplitAt(rs, rs2, i, p) ==
    LET a == SumUpTo(rs, i)
        b == a + rs[i]
    IN /\ rs2[i] = p - a
       /\ rs2[i + 1] = 1
       /\ rs2[i + 2] = b - p - 1
       /\ \A j \in DOMAIN rs : (j > i /\ j + 2 \in DOMAIN rs) => rs2[j + 2] = rs[j]
       /\ \A j \in DOMAIN rs : j < i => rs2[j] = rs[j]
       /\ is_replicated(rs2, p)

\* C6 (SpecApi): an insertion at p inside the non-empty gap [a, b) at odd
\* index i leaves p-a, 1, b-p-1 at i, i+1, i+2, moves every later entry two
\* slots right, keeps every earlier entry, and makes is_replicated(p) true.
C6_Split ==
    [][IsInsertion =>
          \A i \in OddIndices(replication_state) :
              (/\ replication_state[i] > 0
               /\ SumUpTo(replication_state, i) <= new_initiation_pos
               /\ new_initiation_pos < SumUpTo(replication_state, i + 1))
              => SplitAt(replication_state, replication_state', i,
                         new_initiation_pos)]_vars

\* an origin was just inserted strictly inside a gap that has a replicated
\* run and a further gap to its right
C6_Witness ==
    /\ pc = "assign"
    /\ new_initiation_pos >= 0
    /\ \E i \in OddIndices(replication_state) :
          /\ i + 4 \in DOMAIN replication_state
          /\ SumUpTo(replication_state, i + 1) = new_initiation_pos
          /\ replication_state[i] > 0
          /\ replication_state[i + 1] = 1
          /\ replication_state[i + 2] > 0
          /\ replication_state[i + 3] > 0
          /\ replication_state[i + 4] > 0

\* the gap at odd index i can be closed by one call: it is non-empty, at
\* most 2*rate long, and lies between two non-empty replicated runs
Closable(rs, i, rate) ==
    /\ 1 <= rs[i]
    /\ rs[i] <= 2 * rate
    /\ rs[i - 1] > 0
    /\ rs[i + 1] > 0

\* C7 as stated: at the entry of a replicate_and_merge call, every closable
\* gap with neighbours a and b is replaced, in the track the call leaves,
\* by one replicated segment of length exactly a+g+b that starts where a
\* started, and the entries after b end up two slots further left.
C7_Original ==
    AtCallEntry =>
        LET rs == replication_state
            post == replicate_and_merge(rs, replication_rate)
        IN \A i \in OddIndices(rs) :
              Closable(rs, i, replication_rate) =>
                  /\ \E j \in EvenIndices(rs) :
                        /\ post[j] = rs[i - 1] + rs[i] + rs[i + 1]
                        /\ SumUpTo(post, j) = SumUpTo(rs, i - 1)
                  /\ \A m \in DOMAIN rs : m >= i + 2 => post[m - 2] = rs[m]

\* the worked example: [5][3][5] with rate 4 gives 13 and one merge
Example535 == [i \in 0..6 |-> IF i \in {0, 2} THEN 5 ELSE IF i = 1 THEN 3 ELSE 0]

\* C7 (SpecApi), amended: the loop iteration that processes a closable gap
\* (a, g, b being the entries when it is processed) leaves a+g+b at the
\* left neighbour's slot, moves the later entries two slots left, zeroes
\* the last two slots, keeps the earlier entries and counts one merge; the
\* track the whole call leaves has one replicated segment covering a, g
\* and b, of length at least a+g+b, and the call counts at least one merge;
\* [5][3][5] with rate 4 gives 13 and one merge.
C7_Merge ==
    [][/\ pc = "ram" =>
             LET rs == replication_state
                 i == index
             IN Closable(rs, i, replication_rate) =>
                   /\ replication_state'[i - 1] = rs[i - 1] + rs[i] + rs[i + 1]
                   /\ \A m \in DOMAIN rs :
                         (m >= i /\ m + 2 \in DOMAIN rs)
                             => replication_state'[m] = rs[m + 2]
                   /\ replication_state'[LastIndex(rs)] = 0
                   /\ replication_state'[LastIndex(rs) - 1] = 0
                   /\ \A m \in DOMAIN rs :
                         m < i - 1 => replication_state'[m] = rs[m]
                   /\ unassigned_replicators' = unassigned_replicators + 1
       /\ AtCallEntry =>
             LET rs == replication_state
                 post == replicate_and_merge(rs, replication_rate)
             IN \A i \in OddIndices(rs) :
                   Closable(rs, i, replication_rate) =>
                       /\ \E j \in EvenIndices(rs) :
                             /\ post[j] >= rs[i - 1] + rs[i] + rs[i + 1]
                             /\ SumUpTo(post, j) <= SumUpTo(rs, i - 1)
                             /\ SumUpTo(post, j + 1) >= SumUpTo(rs, i + 2)
                       /\ num_merged(rs, replication_rate) >= 1
       /\ replicate_and_merge(Example535, 4)
             = [i \in 0..6 |-> IF i = 0 THEN 13 ELSE 0]
       /\ num_merged(Example535, 4) = 1]_vars

\* inside a call, the loop is about to process a closable gap whose left
\* neighbour has a further open gap on its own left
C7_Witness ==
    /\ pc = "ram"
    /\ index < LastIndex(replication_state) - 1
    /\ index >= 3
    /\ Closable(replication_state, index, replication_rate)
    /\ replication_state[index - 2] > 0

\* C8 (SpecApi): a call is_replicated(position) panics when position >=
\* genome_length, returns a boolean when position is in [0, genome_length),
\* and leaves the track and the quota unchanged either way.
C8_DomainError ==
    [][(pc = "idle" /\ pc' = "idle") =>
          /\ query'.position >= genome_length => query'.outcome = "panic"
          /\ query'.position \in 0..(genome_length - 1)
                => query'.outcome \in {"true", "false"}
          /\ query'.outcome = "true"
                <=> (/\ query'.position < genome_length
                     /\ is_replicated(replication_state, query'.position))
          /\ replication_state' = replication_state
          /\ unassigned_replicators' = unassigned_replicators]_vars

\* the query at genome_length has panicked on a track with origins placed
C8_Witness ==
    /\ query.position = genome_length
    /\ query.outcome = "panic"
    /\ ReplicatedTotal(replication_state) >= 1
    /\ UnreplicatedTotal(replication_state) >= 1

\* the quota bounds and the quota balance
QuotaBalance ==
    /\ 0 <= unassigned_replicators
    /\ unassigned_replicators <= num_replicators
    /\ unassigned_replicators + NonEmptyReplicated(replication_state)
          = num_replicators

\* C9 (Spec): the quota stays in 0..num_replicators, drops by one at every
\* insertion, rises by one at every merge and changes at no other step, and
\* the quota plus the number of non-empty replicated segments is
\* num_replicators.
C9_Quota ==
    [][/\ QuotaBalance
       /\ QuotaBalance'
       /\ unassigned_replicators' - unassigned_replicators =
             IF IsInsertion THEN -1
             ELSE IF /\ pc = "ram"
                     /\ NonEmptyReplicated(replication_state')
                           < NonEmptyReplicated(replication_state)
                  THEN 1
                  ELSE 0]_vars

\* a merge has given quota back while the track is still incomplete
C9_Witness ==
    /\ pc = "loop"
    /\ num_iterations >= 1
    /\ unassigned_replicators >= 1
    /\ NonEmptyReplicated(replication_state) >= 1
    /\ ~is_fully_replicated(replication_state)
    /\ replication_state[0] = 0

\* C10 (Spec): a placement attempt made with positive quota on a track
\* without any non-empty gap returns at once: it does not enter the
\* accept/reject loop and changes neither the track nor the quota.
C10_Degenerate ==
    [][(/\ pc = "assign"
        /\ unassigned_replicators > 0
        /\ is_fully_replicated(replication_state))
       => /\ pc' = "ram"
          /\ replication_state' = replication_state
          /\ unassigned_replicators' = unassigned_replicators]_vars

\* assign_replicators has returned with quota left on a complete track
C10_Witness ==
    /\ AtCallEntry
    /\ unassigned_replicators > 0
    /\ is_fully_replicated(replication_state)

\* C11 (Spec): the cell is in G phase exactly while the driver is at the
\* gate, a cell in S phase never returns to G phase, and while the cell is
\* in G phase the track is the initial [0, L, 0, ...] and the quota is
\* untouched: no insertion and no replicate_and_merge step has happened.
C11_PhaseGate ==
    [][/\ cell_state \in {"GPhase", "SPhase"}
       /\ (cell_state = "GPhase") <=> (pc = "gate")
       /\ (cell_state' = "GPhase") <=> (pc' = "gate")
       /\ cell_state = "SPhase" => cell_state' = "SPhase"
       /\ cell_state' = "GPhase" =>
             /\ replication_state' = start_vec(genome_length, num_replicators)
             /\ unassigned_replicators' = num_replicators
             /\ num_iterations' = 0
       /\ cell_state = "GPhase" =>
             /\ replication_state' = replication_state
             /\ unassigned_replicators' = unassigned_replicators]_vars

\* the cell waited in G phase, switched, and has replicated since
C11_Witness ==
    /\ cell_state = "SPhase"
    /\ num_warmup_iters >= 2
    /\ replication_state # start_vec(genome_length, num_replicators)
    /\ num_iterations >= 1

RECURSIVE RangeTotal(_)
\* the sum of the lengths of the ranges
RangeTotal(dq) ==
    IF dq = <<>> THEN 0 ELSE Head(dq).length + RangeTotal(Tail(dq))

\* C13 (SpecArchive): after any sequence of in-range replicate calls,
\* is_replicated(p) is true for every position p passed to replicate.
C13_ReplicatedStays ==
    \A p \in replicate_args : Chromosome_is_replicated(chromosome, p)

\* C14 (SpecArchive): replicate(position) and is_replicated(position) panic
\* for every position < 0 and every position >= genome_length, and the
\* range list is as it was before the call.
C14_ArchiveBounds ==
    [][(pc = "archive" /\ chromosome_call'.op # "none") =>
          /\ chromosome_call'.outcome = "panic"
                <=> (\/ chromosome_call'.position < 0
                     \/ chromosome_call'.position >= genome_length)
          /\ chromosome_call'.outcome = "panic" =>
                /\ chromosome' = chromosome
                /\ pc' = "panicked"]_vars

\* both calls have panicked below and above the range, on a split chromosome
C14_Witness ==
    /\ pc = "panicked"
    /\ Len(chromosome) >= 2
    /\ chromosome_call.op = "replicate"
    /\ chromosome_call.position = -1

\* C15 (SpecArchive): after any sequence of in-range replicate calls the
\* lengths of the ranges sum to genome_length.
C15_ArchiveConservation == RangeTotal(chromosome) = genome_length

\* the positions of [0, genome_length) that are not replicated
Unreplicated(rs, L) == {p \in 0..(L - 1) : ~is_replicated(rs, p)}

\* C16 (SpecApi): every position about to be inserted lies in a non-empty
\* odd-indexed segment (is_replicated is false there and the located
\* insert_index is odd), and while sampling, the candidates the draw can
\* return are exactly the currently unreplicated positions.
C16_SamplingSupport ==
    /\ pc = "insert" =>
          /\ new_initiation_pos \in 0..(genome_length - 1)
          /\ ~is_replicated(replication_state, new_initiation_pos)
          /\ Walk(replication_state, new_initiation_pos).ind % 2 = 1
          /\ replication_state[Walk(replication_state, new_initiation_pos).ind] > 0
    /\ pc = "sample" =>
          sample_positions(replication_state)
              = Unreplicated(replication_state, genome_length)

\* an origin is about to go into the second of two open gaps
C16_Witness ==
    /\ pc = "insert"
    /\ Walk(replication_state, new_initiation_pos).ind >= 3
    /\ replication_state[1] > 0
    /\ Cardinality(Unreplicated(replication_state, genome_length)) >= 3

\* what the gap at odd index i gives to its left and right neighbours
GivesLeft(rs, i, rate) == IF rs[i - 1] > 0 THEN Min(rs[i], rate) ELSE 0
GivesRight(rs, i, rate) ==
    IF rs[i + 1] > 0 THEN Min(rs[i] - GivesLeft(rs, i, rate), rate) ELSE 0
Shrink(rs, i, rate) == GivesLeft(rs, i, rate) + GivesRight(rs, i, rate)

RECURSIVE ShrinkSum(_, _, _)
\* the sum of Shrink over the odd indices 1, 3, .., i
ShrinkSum(rs, i, rate) ==
    IF i < 1 THEN 0 ELSE Shrink(rs, i, rate) + ShrinkSum(rs, i - 2, rate)

\* C17 (SpecApi): the loop iteration that processes a gap of length g > 0
\* gives min(g, rate) to a non-empty left neighbour and then min(rest, rate)
\* to a non-empty right neighbour, so the gap shrinks by min(g, 2*rate) with
\* two non-empty neighbours, by min(g, rate) with one and by 0 with none;
\* over a whole call the unreplicated total drops by the sum of these
\* amounts, each computed from the track at the start of the call.
C17_GrowthAmounts ==
    [][/\ (pc = "ram" /\ replication_state[index] > 0) =>
             LET rs == replication_state
                 i == index
                 g == rs[i]
                 rate == replication_rate
                 both == rs[i - 1] > 0 /\ rs[i + 1] > 0
                 none == rs[i - 1] = 0 /\ rs[i + 1] = 0
             IN /\ Shrink(rs, i, rate) =
                      IF both THEN Min(g, 2 * rate)
                      ELSE IF none THEN 0 ELSE Min(g, rate)
                /\ IF both /\ g <= 2 * rate
                   THEN replication_state'[i - 1] = rs[i - 1] + g + rs[i + 1]
                   ELSE /\ replication_state'[i - 1] = rs[i - 1] + GivesLeft(rs, i, rate)
                        /\ replication_state'[i] = g - Shrink(rs, i, rate)
                        /\ replication_state'[i + 1] = rs[i + 1] + GivesRight(rs, i, rate)
       /\ AtCallEntry =>
             UnreplicatedTotal(replicate_and_merge(replication_state, replication_rate))
                 = UnreplicatedTotal(replication_state)
                      - ShrinkSum(replication_state, index, replication_rate)]_vars

\* inside a call, a gap longer than 2*rate between two replicated runs is
\* about to be processed
C17_Witness ==
    /\ pc = "ram"
    /\ index < LastIndex(replication_state) - 1
    /\ replication_state[index] > 2 * replication_rate
    /\ replication_state[index - 1] > 0
    /\ replication_state[index + 1] > 0

\* entries 0 and 1 are not both zero, and from index 1 on a zero entry is
\* followed only by zero entries
Canonical(rs) ==
    /\ ~(rs[0] = 0 /\ rs[1] = 0)
    /\ \A i \in DOMAIN rs : (i >= 1 /\ rs[i] = 0) =>
          \A j \in DOMAIN rs : j > i => rs[j] = 0

\* C18 (SpecApi): the track that a replicate_and_merge call returns is in
\* canonical form: no leading zero pair, and no zero entry from index 1 on
\* with a non-zero entry after it.
C18_Canonical ==
    [][pc = "edge" => Canonical(replication_state')]_vars

\* a track whose first run starts at coordinate 0 and whose last run ends at
\* the last coordinate, with an open gap between them
C18_Witness ==
    /\ pc = "idle"
    /\ replication_state[0] > 0
    /\ replication_state[1] > 0
    /\ replication_state[2] > 0
    /\ replication_state[3] = 0
    /\ Canonical(replication_state)

\* C19 (Spec): when the replication loop has exited, the track is
\* [genome_length, 0, ..., 0].
C19_FinalTrack ==
    pc = "done" =>
        replication_state
            = [i \in DOMAIN replication_state |-> IF i = 0 THEN genome_length ELSE 0]

\* the loop has exited after merges gave back all but one unit of quota
C19_Witness ==
    /\ pc = "done"
    /\ num_replicators >= 2
    /\ unassigned_replicators = num_replicators - 1
    /\ replication_state[0] = genome_length
    /\ genome_length >= 3

\* C20 (SpecApi): a position of [0, genome_length) that is replicated stays
\* replicated across every step.
C20_PositionMonotonic ==
    [][\A p \in 0..(genome_length - 1) :
          is_replicated(replication_state, p)
              => is_replicated(replication_state', p)]_vars

\* runs have grown, merged and been collapsed to the front, a gap is open
C20_Witness ==
    /\ pc = "idle"
    /\ replication_state[0] >= 3
    /\ replication_state[1] > 0
    /\ unassigned_replicators = num_replicators - 1
    /\ num_replicators >= 2

\* C21 (SpecApi): the loop iteration of replicate_and_merge at odd index i
\* leaves every entry below i-1 as it was, so the gaps not yet processed
\* keep their values.
C21_DescendingFrame ==
    [][pc = "ram" =>
          \A j \in DOMAIN replication_state :
              j < index - 1 => replication_state'[j] = replication_state[j]]_vars

\* a zero-length gap is about to be merged away while an open gap further
\* left is still to be processed
C21_Witness ==
    /\ pc = "ram"
    /\ index >= 3
    /\ replication_state[index] = 0
    /\ merges(replication_state, index, replication_rate)
    /\ replication_state[index - 2] > 0

\* this step is a draw of the phase gate
IsGateDraw == pc = "gate"

\* C22 as stated: the draw that switches the cell to S phase leaves the
\* gate's counter as it was, and only a draw that keeps the cell in G phase
\* increments it.
C22_Original ==
    [][IsGateDraw =>
          num_warmup_iters' =
              IF cell_state' = "GPhase" THEN num_warmup_iters + 1
              ELSE num_warmup_iters]_vars

\* C22 (Spec), amended: every draw of the gate increments the counter by
\* one, the draw that switches the cell to S phase included, and no other
\* step changes it; so the counter at the transition is the number of
\* failed draws plus one.
C22_GateCounter ==
    [][/\ IsGateDraw => num_warmup_iters' = num_warmup_iters + 1
       /\ ~IsGateDraw => num_warmup_iters' = num_warmup_iters
       /\ cell_state' = "SPhase" => num_warmup_iters' >= 1]_vars

\* the cell switched on its first draw, with no failed draw before it
C22_Witness ==
    /\ pc = "loop"
    /\ cell_state = "SPhase"
    /\ num_warmup_iters = 1
    /\ num_iterations = 0

\* C23 (SpecPair): fed the same accepted origin positions, the driver of
\* main_basic.rs and the driver of main.rs hold the same track after every
\* loop iteration, have counted the same number of iterations, and leave
\* their loops at the same loop test.
C23_VariantEquivalence ==
    /\ pc \in {"pair_loop", "pair_done"} =>
          /\ genome = replication_state
          /\ basic_iterations = num_iterations
    /\ pc \in {"pair_assign", "pair_done"} => exited.main = exited.basic

\* both drivers have finished after several iterations, and the quota that
\* main.rs kept in reserve was dropped by main_basic.rs
C23_Witness ==
    /\ pc = "pair_done"
    /\ num_iterations >= 2
    /\ unassigned_replicators > basic_unassigned

\* the steps of the forks are negative and positive in turn, from a
\* negative one
Alternates(fs) ==
    \A i \in DOMAIN fs : IF i % 2 = 1 THEN fs[i].step < 0 ELSE fs[i].step > 0

\* this step is a merge_forks call that finds a pair that has met the next
IsForkMerge ==
    /\ pc = "fork_merge"
    /\ ~merge_forks_panics(fork_state)
    /\ overlaps(fork_state) # {}

\* C24 as stated: a merge at ind removes the forks at ind+1 and ind+2 and
\* keeps the left-moving fork at ind and the right-moving fork at ind+3 (all
\* forks outside the two pairs stay as they are), and after every step
\* fork_state alternates a fork with step < 0 and a fork with step > 0.
C24_MergeKeepsOuterForks ==
    [][/\ IsForkMerge =>
             LET ind == first_overlap(fork_state) IN
             /\ Len(fork_state') = Len(fork_state) - 2
             /\ At(fork_state', ind).step = At(fork_state, ind).step
             /\ At(fork_state', ind + 1).step = At(fork_state, ind + 3).step
             /\ \A j \in 0..(ind - 1) : At(fork_state', j) = At(fork_state, j)
             /\ \A j \in (ind + 4)..(Len(fork_state) - 1) :
                    At(fork_state', j - 2) = At(fork_state, j)
       /\ Alternates(fork_state')]_vars

\* C25 as stated: every call of merge_forks in the main loop finds at least
\* 4 forks, so fork_state.len() - 3 does not underflow.
C25_NoUnderflow ==
    pc = "fork_merge" => Len(fork_state) >= 4

====
